---- MODULE Spec2Model ----
(***************************************************************************)
(* A model of bookkeep's aggregation engine, calculate (src/calculate.rs), *)
(* over the ledger types of src/types.rs.                                  *)
(*                                                                         *)
(* calculate makes one pass over data.groupings.  The ledger is read-only  *)
(* and is consumed front to back, so the model reveals each grouping and   *)
(* each transaction when the loop that iterates it reaches it;             *)
(* data.groupings holds the part of the ledger read so far.  A panic!      *)
(* ends the run in pc = "panic" with the locals as they were when the      *)
(* failed check was evaluated.                                             *)
(*                                                                         *)
(* calculate takes any RealBookkeeping: it does not compare period names   *)
(* (only Bookkeeping::realize rejects a repeated name), so the groupings   *)
(* explored may share a name.  The declared account set and the            *)
(* transaction indices are as realize builds them.                         *)
(*                                                                         *)
(* A String is a sequence of one-character strings, a Decimal an integer,  *)
(* a time::Date a day number, a Vec a sequence, a BTreeSet a strictly      *)
(* ascending sequence, a BTreeMap a function on its key set.               *)
(***************************************************************************)
EXTENDS Integers, Sequences, FiniteSets, TLC

\* Bounds of the explored ledgers.
MaxGroupings == 2
MaxTransactions == 2
MaxTransfers == 2

(***************************************************************************)
(* Strings and the derived orderings                                       *)
(***************************************************************************)
CharCode ==
  "0" :> 48 @@ "1" :> 49 @@ "2" :> 50 @@ "3" :> 51 @@ "4" :> 52 @@
  "5" :> 53 @@ "6" :> 54 @@ "7" :> 55 @@ "8" :> 56 @@ "9" :> 57 @@
  "[" :> 91 @@ "]" :> 93 @@
  "a" :> 97 @@ "b" :> 98 @@ "p" :> 112 @@ "r" :> 114 @@ "s" :> 115 @@
  "t" :> 116 @@ "x" :> 120 @@ "y" :> 121

DigitChar == <<"0", "1", "2", "3", "4", "5", "6", "7", "8", "9">>

\* Display of a usize: its decimal digits.
RECURSIVE Digits(_)
Digits(n) ==
  IF n < 10 THEN <<DigitChar[n + 1]>>
  ELSE Digits(n \div 10) \o <<DigitChar[(n % 10) + 1]>>

CharLess(c, d) == CharCode[c] < CharCode[d]

\* Ord of String, lexicographic: the first differing character decides, a
\* proper prefix is smaller.
StringLess(s, t) ==
  \E k \in 1..Len(t) :
    /\ k <= Len(s) + 1
    /\ \A j \in 1..(k - 1) : s[j] = t[j]
    /\ (k = Len(s) + 1 \/ CharLess(s[k], t[k]))

\* Ord of (String, Decimal).
LegLess(p, q) == StringLess(p[1], q[1]) \/ (p[1] = q[1] /\ p[2] < q[2])

\* Ord of Vec<(String, Decimal)>, lexicographic in the same way.
LegsLess(s, t) ==
  \E k \in 1..Len(t) :
    /\ k <= Len(s) + 1
    /\ \A j \in 1..(k - 1) : s[j] = t[j]
    /\ (k = Len(s) + 1 \/ LegLess(s[k], t[k]))

\* derive(PartialOrd, Ord) on Transfer: the fields in declaration order.
TransferLess(x, y) ==
  \/ x.date < y.date
  \/ /\ x.date = y.date
     /\ \/ StringLess(x.name, y.name)
        \/ /\ x.name = y.name
           /\ \/ x.amount < y.amount
              \/ /\ x.amount = y.amount
                 /\ \/ StringLess(x.unique_id, y.unique_id)
                    \/ /\ x.unique_id = y.unique_id
                       /\ LegsLess(x.related_transfers, y.related_transfers)

\* A format without the leg index.
UniqueIdNoLeg(grouping_name, index, i) ==
  grouping_name \o <<"[">> \o Digits(index) \o <<"]">>

\* format!("{}[{}][{}]", grouping.name, transaction.index, i)
UniqueId(grouping_name, index, i) ==
  grouping_name \o <<"[">> \o Digits(index) \o <<"]">>
                \o <<"[">> \o Digits(i) \o <<"]">>

\* The Transfer built for leg i (zero-based) of a transaction.
MakeTransfer(grouping_name, transaction, i) ==
  [ date              |-> transaction.date,
    name              |-> transaction.name,
    amount            |-> transaction.transfers[i + 1][2],
    unique_id         |-> UniqueId(grouping_name, transaction.index, i),
    related_transfers |-> transaction.transfers ]

(***************************************************************************)
(* BTreeSet<Transfer> and BTreeMap<String, SummedAccount>                  *)
(***************************************************************************)
\* An insert that puts the element last, whatever its place in the order.
BTreeSetInsertLast(set, transfer) ==
  IF \E k \in 1..Len(set) : set[k] = transfer
  THEN [inserted |-> FALSE, set |-> set]
  ELSE [inserted |-> TRUE, set |-> Append(set, transfer)]

\* An insert that never finds the element held.
BTreeSetInsertAlways(set, transfer) ==
  LET n == Cardinality({k \in 1..Len(set) : TransferLess(set[k], transfer)})
  IN  [inserted |-> TRUE,
       set |-> SubSeq(set, 1, n) \o <<transfer>> \o SubSeq(set, n + 1, Len(set))]

\* An insert that puts the element first, whatever its place in the order.
BTreeSetInsertFirst(set, transfer) ==
  IF \E k \in 1..Len(set) : set[k] = transfer
  THEN [inserted |-> FALSE, set |-> set]
  ELSE [inserted |-> TRUE, set |-> <<transfer>> \o set]

\* BTreeSet::insert: false and no change when an equal element is held,
\* else the element goes to its place in the order.
BTreeSetInsert(set, transfer) ==
  IF \E k \in 1..Len(set) : set[k] = transfer
  THEN [inserted |-> FALSE, set |-> set]
  ELSE LET n == Cardinality({k \in 1..Len(set) : TransferLess(set[k], transfer)})
       IN  [inserted |-> TRUE,
            set |-> SubSeq(set, 1, n) \o <<transfer>> \o SubSeq(set, n + 1, Len(set))]

EmptyMap == [k \in {} |-> k]

\* An and_modify that forgets x.sum += amount.
ApplyLegNoSum(accounts, account, amount, transfer) ==
  IF account \in DOMAIN accounts
  THEN LET x   == accounts[account]
           ins == BTreeSetInsert(x.transfers, transfer)
       IN  [panicked |-> ~ins.inserted,
            accounts |-> [accounts EXCEPT ![account] =
                            [name |-> x.name, sum |-> x.sum,
                             transfers |-> ins.set]]]
  ELSE [panicked |-> FALSE,
        accounts |-> accounts @@
                     (account :> [name |-> account, sum |-> amount,
                                  transfers |-> <<transfer>>])]

\* An or_insert that creates the account without its first transfer.
ApplyLegNoFirstTransfer(accounts, account, amount, transfer) ==
  IF account \in DOMAIN accounts
  THEN LET x   == accounts[account]
           ins == BTreeSetInsert(x.transfers, transfer)
       IN  [panicked |-> ~ins.inserted,
            accounts |-> [accounts EXCEPT ![account] =
                            [name |-> x.name, sum |-> x.sum + amount,
                             transfers |-> ins.set]]]
  ELSE [panicked |-> FALSE,
        accounts |-> accounts @@
                     (account :> [name |-> account, sum |-> amount,
                                  transfers |-> <<>>])]

\* An and_modify that adds the amount and keeps the set as it was.
ApplyLegNoLaterTransfer(accounts, account, amount, transfer) ==
  IF account \in DOMAIN accounts
  THEN LET x == accounts[account]
       IN  [panicked |-> FALSE,
            accounts |-> [accounts EXCEPT ![account] =
                            [name |-> x.name, sum |-> x.sum + amount,
                             transfers |-> x.transfers]]]
  ELSE [panicked |-> FALSE,
        accounts |-> accounts @@
                     (account :> [name |-> account, sum |-> amount,
                                  transfers |-> <<transfer>>])]

\* entry(account).and_modify(..).or_insert(..): the map afterwards, and
\* whether and_modify panicked (sum is added before the insert is tried).
ApplyLeg(accounts, account, amount, transfer) ==
  IF account \in DOMAIN accounts
  THEN LET x   == accounts[account]
           ins == BTreeSetInsert(x.transfers, transfer)
       IN  [panicked |-> ~ins.inserted,
            accounts |-> [accounts EXCEPT ![account] =
                            [name |-> x.name, sum |-> x.sum + amount,
                             transfers |-> ins.set]]]
  ELSE [panicked |-> FALSE,
        accounts |-> accounts @@
                     (account :> [name |-> account, sum |-> amount,
                                  transfers |-> <<transfer>>])]

(***************************************************************************)
(* Category rollup                                                         *)
(***************************************************************************)
\* An inner loop that lists an account without activity as a zero entry.
RECURSIVE SumMembersPlaceholder(_, _, _)
SumMembersPlaceholder(members, accounts, k) ==
  IF k = 0 THEN [sum |-> 0, summed_accounts |-> <<>>]
  ELSE LET before == SumMembersPlaceholder(members, accounts, k - 1)
           account == members[k]
       IN  IF account \in DOMAIN accounts
           THEN [sum |-> before.sum + accounts[account].sum,
                 summed_accounts |-> Append(before.summed_accounts, accounts[account])]
           ELSE [sum |-> before.sum,
                 summed_accounts |->
                   Append(before.summed_accounts,
                          [name |-> account, sum |-> 0, transfers |-> <<>>])]

\* The inner loop over a category's accounts, after its first k accounts.
RECURSIVE SumMembers(_, _, _)
SumMembers(members, accounts, k) ==
  IF k = 0 THEN [sum |-> 0, summed_accounts |-> <<>>]
  ELSE LET before == SumMembers(members, accounts, k - 1)
           account == members[k]
       IN  IF account \in DOMAIN accounts
           THEN [sum |-> before.sum + accounts[account].sum,
                 summed_accounts |-> Append(before.summed_accounts, accounts[account])]
           ELSE before

\* A rollup that leaves out the categories without a listed account.
RollupSkipEmpty(table, accounts) ==
  LET all == [e \in 1..Len(table) |->
                LET r == SumMembers(table[e][2], accounts, Len(table[e][2]))
                IN  <<table[e][1], r.sum, r.summed_accounts>>]
      Listed(entry) == entry[3] # <<>>
  IN  SelectSeq(all, Listed)

\* One rollup: for each (key, accounts) of the table, in order, push
\* (key, sum, summed_accounts).
Rollup(table, accounts) ==
  [e \in 1..Len(table) |->
     LET r == SumMembers(table[e][2], accounts, Len(table[e][2]))
     IN  <<table[e][1], r.sum, r.summed_accounts>>]

SummedGroupingOf(d, accounts) ==
  [ account_types |-> Rollup(d.account_types, accounts),
    account_sums  |-> Rollup(d.account_sums, accounts) ]

(***************************************************************************)
(* The ledgers explored                                                    *)
(***************************************************************************)
AccountNames == {<<"a">>, <<"b">>}
Amounts == {-1, 0, 1}
Dates == {1, 2}
TransactionNames == {<<"s">>, <<"t">>}
GroupingNames == {<<"p">>, <<"p", "[", "0", "]">>}

\* The declared tables: both accounts under one type and a type without
\* accounts, or account a alone (b is then undeclared); no category, or
\* two overlapping categories.
TwoAccounts == << <<"Asset", << <<"b">>, <<"a">> >> >>, <<"Income", <<>> >> >>
OneAccount == << <<"Expense", << <<"a">> >> >> >>
TwoTypes == << <<"Asset", << <<"a">> >> >>, <<"Income", << <<"b">> >> >> >>
NoSums == <<>>
TwoSums ==
  << <<<<"x">>, << <<"b">>, <<"a">> >> >>, <<<<"y">>, << <<"a">> >> >> >>

Declarations ==
  { [account_types |-> TwoAccounts, account_sums |-> TwoSums],
    [account_types |-> OneAccount, account_sums |-> TwoSums],
    [account_types |-> OneAccount, account_sums |-> NoSums],
    [account_types |-> TwoTypes, account_sums |-> NoSums] }

Legs == AccountNames \X Amounts

TransferLists ==
  UNION {[1..n -> Legs] : n \in 0..MaxTransfers}

Transactions ==
  [name : TransactionNames, date : Dates, transfers : TransferLists]

\* Transactions::realize: a transaction's index is its place in its grouping.
RealTransaction(x, index) ==
  [name |-> x.name, date |-> x.date, index |-> index, transfers |-> x.transfers]

\* Bookkeeping::realize: the declared account set is every account listed
\* under some account type.
DeclaredAccounts(account_types) ==
  UNION { {account_types[e][2][k] : k \in 1..Len(account_types[e][2])}
          : e \in 1..Len(account_types) }

(***************************************************************************)
(* State                                                                   *)
(***************************************************************************)
VARIABLES
  data,               \* the RealBookkeeping; groupings: the part read so far
  pc,                 \* "groupings" | "transactions" | "transfers" | "done" | "panic"
  i,                  \* index of the next leg of the current transaction
  sum,                \* the per-transaction sum
  total_accounts,
  grouping_accounts,
  summed_periods,
  returned,           \* <<the SummedBookkeeping>> once returned, else <<>>
  panic               \* which panic! ended the run, "" if none

vars == <<data, pc, i, sum, total_accounts, grouping_accounts, summed_periods,
          returned, panic>>

grouping == data.groupings[Len(data.groupings)]
transaction == grouping.transactions[Len(grouping.transactions)]

RECURSIVE TransactionCount(_)
TransactionCount(groupings) ==
  IF groupings = <<>> THEN 0
  ELSE Len(groupings[1].transactions) + TransactionCount(Tail(groupings))

Init ==
  /\ \E declared \in Declarations :
       data = [ name          |-> <<"r">>,
                accounts      |-> DeclaredAccounts(declared.account_types),
                account_types |-> declared.account_types,
                account_sums  |-> declared.account_sums,
                groupings     |-> <<>> ]
  /\ pc = "groupings"
  /\ i = 0
  /\ sum = 0
  /\ total_accounts = EmptyMap
  /\ grouping_accounts = EmptyMap
  /\ summed_periods = <<>>
  /\ returned = <<>>
  /\ panic = ""

\* A loop head that keeps the accumulator of the grouping before.
NextGroupingKeepsAccounts ==
  /\ pc = "groupings"
  /\ Len(data.groupings) < MaxGroupings
  /\ \E name \in GroupingNames :
       data' = [data EXCEPT !.groupings =
                  Append(@, [name |-> name, transactions |-> <<>>])]
  /\ pc' = "transactions"
  /\ UNCHANGED <<i, sum, total_accounts, grouping_accounts, summed_periods,
                 returned, panic>>

\* for grouping in data.groupings { let mut grouping_accounts = BTreeMap::new();
NextGrouping ==
  /\ pc = "groupings"
  /\ Len(data.groupings) < MaxGroupings
  /\ \E name \in GroupingNames :
       data' = [data EXCEPT !.groupings =
                  Append(@, [name |-> name, transactions |-> <<>>])]
  /\ grouping_accounts' = EmptyMap
  /\ pc' = "transactions"
  /\ UNCHANGED <<i, sum, total_accounts, summed_periods, returned, panic>>

\* for transaction in &grouping.transactions { let mut sum = Decimal::ZERO;
NextTransaction ==
  /\ pc = "transactions"
  /\ TransactionCount(data.groupings) < MaxTransactions
  /\ \E x \in Transactions :
       data' = [data EXCEPT !.groupings[Len(data.groupings)].transactions =
                  Append(@, RealTransaction(x, Len(@)))]
  /\ sum' = 0
  /\ i' = 0
  /\ pc' = "transfers"
  /\ UNCHANGED <<total_accounts, grouping_accounts, summed_periods, returned, panic>>

\* A sum check that only catches a surplus.
UnbalancedPositiveOnly(s) == s > 0

\* A sum check that only catches a deficit.
UnbalancedNegativeOnly(s) == s < 0

\* if sum != Decimal::ZERO { panic!(..) }
Unbalanced(s) == s # 0

\* A declaration check that accepts every account.
IsDeclaredAlways(accounts, account) == TRUE

\* data.accounts.contains(account)
IsDeclared(accounts, account) == account \in accounts

\* A push that puts the new element first.
PushFront(vec, x) == <<x>> \o vec

\* Vec::push
Push(vec, x) == Append(vec, x)

\* One iteration of the loop over transaction.transfers.
NextTransfer ==
  /\ pc = "transfers"
  /\ i < Len(transaction.transfers)
  /\ LET account  == transaction.transfers[i + 1][1]
         amount   == transaction.transfers[i + 1][2]
         transfer == MakeTransfer(grouping.name, transaction, i)
         global   == ApplyLeg(total_accounts, account, amount, transfer)
         local    == ApplyLeg(grouping_accounts, account, amount, transfer)
     IN  /\ sum' = sum + amount
         /\ IF ~IsDeclared(data.accounts, account)
            THEN /\ pc' = "panic"
                 /\ panic' = "UndeclaredAccount"
                 /\ UNCHANGED <<i, total_accounts, grouping_accounts>>
            ELSE IF global.panicked
            THEN /\ pc' = "panic"
                 /\ panic' = "DuplicateTransfer"
                 /\ total_accounts' = global.accounts
                 /\ UNCHANGED <<i, grouping_accounts>>
            ELSE IF local.panicked
            THEN /\ pc' = "panic"
                 /\ panic' = "DuplicateTransfer"
                 /\ total_accounts' = global.accounts
                 /\ grouping_accounts' = local.accounts
                 /\ UNCHANGED i
            ELSE /\ total_accounts' = global.accounts
                 /\ grouping_accounts' = local.accounts
                 /\ i' = i + 1
                 /\ UNCHANGED <<pc, panic>>
  /\ UNCHANGED <<data, summed_periods, returned>>

\* The legs of the transaction are exhausted: the check of its sum.
EndTransaction ==
  /\ pc = "transfers"
  /\ i = Len(transaction.transfers)
  /\ IF Unbalanced(sum)
     THEN pc' = "panic" /\ panic' = "UnbalancedTransaction"
     ELSE pc' = "transactions" /\ UNCHANGED panic
  /\ UNCHANGED <<data, i, sum, total_accounts, grouping_accounts, summed_periods,
                 returned>>

\* The transactions of the grouping are exhausted: its rollups and the push.
EndGrouping ==
  /\ pc = "transactions"
  /\ summed_periods' =
       Push(summed_periods,
            <<grouping.name, SummedGroupingOf(data, grouping_accounts)>>)
  /\ pc' = "groupings"
  /\ UNCHANGED <<data, i, sum, total_accounts, grouping_accounts, returned, panic>>

\* The groupings are exhausted: the global rollups and the returned value.
Return ==
  /\ pc = "groupings"
  /\ returned' = << [ name      |-> data.name,
                      total     |-> SummedGroupingOf(data, total_accounts),
                      groupings |-> summed_periods ] >>
  /\ pc' = "done"
  /\ UNCHANGED <<data, i, sum, total_accounts, grouping_accounts, summed_periods,
                 panic>>

Next ==
  \/ NextGrouping
  \/ NextTransaction
  \/ NextTransfer
  \/ EndTransaction
  \/ EndGrouping
  \/ Return

Spec == Init /\ [][Next]_vars

(***************************************************************************)
(* calculate as a function of a whole ledger: the same loops, run to the   *)
(* end.  ok turns FALSE at the first panic! and nothing is done after it.  *)
(***************************************************************************)
\* The loop over transaction.transfers, after its first k legs.
RECURSIVE RunTransfers(_, _, _, _, _)
RunTransfers(d, st, name, tx, k) ==
  IF k = 0 THEN [st EXCEPT !.sum = 0]
  ELSE LET before   == RunTransfers(d, st, name, tx, k - 1)
           account  == tx.transfers[k][1]
           amount   == tx.transfers[k][2]
           transfer == MakeTransfer(name, tx, k - 1)
           global   == ApplyLeg(before.total_accounts, account, amount, transfer)
           local    == ApplyLeg(before.grouping_accounts, account, amount, transfer)
       IN  IF ~before.ok THEN before
           ELSE IF \/ ~IsDeclared(d.accounts, account)
                   \/ global.panicked
                   \/ local.panicked
           THEN [before EXCEPT !.ok = FALSE]
           ELSE [before EXCEPT !.sum = @ + amount,
                               !.total_accounts = global.accounts,
                               !.grouping_accounts = local.accounts]

\* The loop over grouping.transactions, after its first n transactions.
RECURSIVE RunTransactions(_, _, _, _)
RunTransactions(d, st, g, n) ==
  IF n = 0 THEN st
  ELSE LET before == RunTransactions(d, st, g, n - 1)
           tx     == g.transactions[n]
           after  == RunTransfers(d, before, g.name, tx, Len(tx.transfers))
       IN  IF ~before.ok THEN before
           ELSE IF after.ok /\ Unbalanced(after.sum)
           THEN [after EXCEPT !.ok = FALSE]
           ELSE after

\* The loop over data.groupings, after its first n groupings.
RECURSIVE RunGroupings(_, _, _)
RunGroupings(d, st, n) ==
  IF n = 0 THEN st
  ELSE LET before == RunGroupings(d, st, n - 1)
           g      == d.groupings[n]
           after  == RunTransactions(d, [before EXCEPT !.grouping_accounts = EmptyMap],
                                     g, Len(g.transactions))
       IN  IF ~before.ok THEN before
           ELSE IF ~after.ok THEN after
           ELSE [after EXCEPT !.summed_periods =
                   Push(@, <<g.name, SummedGroupingOf(d, after.grouping_accounts)>>)]

\* <<the SummedBookkeeping>> calculate(d) returns, <<>> when it panics.
Calculate(d) ==
  LET end == RunGroupings(d, [ok |-> TRUE, sum |-> 0,
                              total_accounts |-> EmptyMap,
                              grouping_accounts |-> EmptyMap,
                              summed_periods |-> <<>>],
                          Len(d.groupings))
  IN  IF end.ok
      THEN << [ name      |-> d.name,
                total     |-> SummedGroupingOf(d, end.total_accounts),
                groupings |-> end.summed_periods ] >>
      ELSE <<>>

(***************************************************************************)
(* The ledger read so far, as the properties below see it                  *)
(***************************************************************************)
RECURSIVE LegSum(_)
LegSum(transfers) ==
  IF transfers = <<>> THEN 0 ELSE transfers[1][2] + LegSum(Tail(transfers))

Running == pc \in {"transfers", "panic"}

\* The places <<g, t>> of the transactions read so far, and of those whose
\* legs and sum check are all behind the pass.
Places ==
  UNION { {<<g, t>> : t \in 1..Len(data.groupings[g].transactions)}
          : g \in 1..Len(data.groupings) }

Current == <<Len(data.groupings), Len(grouping.transactions)>>

Completed == IF Running THEN Places \ {Current} ELSE Places

TransactionAt(place) == data.groupings[place[1]].transactions[place[2]]

\* The groupings whose SummedGrouping has been pushed.
Summed == 1..Len(summed_periods)

\* Some leg of grouping g names the account.
ActiveIn(g, account) ==
  \E t \in 1..Len(data.groupings[g].transactions) :
    \E l \in 1..Len(data.groupings[g].transactions[t].transfers) :
      data.groupings[g].transactions[t].transfers[l][1] = account

RECURSIVE SumOfSums(_)
SumOfSums(summed_accounts) ==
  IF summed_accounts = <<>> THEN 0
  ELSE summed_accounts[1].sum + SumOfSums(Tail(summed_accounts))

\* The total a SummedGrouping reports for an account: that of the
\* SummedAccount listed under its account type, zero when none is listed.
ListedUnderTypes(summed, account) ==
  {m \in UNION { {summed.account_types[e][3][k] :
                    k \in 1..Len(summed.account_types[e][3])}
                 : e \in 1..Len(summed.account_types) } : m.name = account}

TotalIn(summed, account) ==
  IF ListedUnderTypes(summed, account) = {} THEN 0
  ELSE (CHOOSE m \in ListedUnderTypes(summed, account) : TRUE).sum

RECURSIVE SumOverPeriods(_, _)
SumOverPeriods(periods, account) ==
  IF periods = <<>> THEN 0
  ELSE TotalIn(periods[1][2], account) + SumOverPeriods(Tail(periods), account)

(***************************************************************************)
(* C1: a transaction whose legs sum to a nonzero value ends the run in the *)
(* UnbalancedTransaction failure unless an earlier check failed first, and *)
(* nothing is returned; whatever is returned comes from a ledger all of    *)
(* whose transactions sum to zero.                                         *)
(***************************************************************************)
C1_UnbalancedNeverReturns ==
  /\ \A place \in Completed : LegSum(TransactionAt(place).transfers) = 0
  /\ returned # <<>> => pc = "done" /\ Completed = Places
  /\ pc = "panic" => returned = <<>>
  /\ panic = "UnbalancedTransaction" =>
       pc = "panic" /\ LegSum(transaction.transfers) # 0
  /\ (pc = "panic" /\ i = Len(transaction.transfers)) =>
       panic = "UnbalancedTransaction"

\* An unbalanced transaction of a later period, after a period was summed.
C1_Witness ==
  /\ pc = "panic"
  /\ panic = "UnbalancedTransaction"
  /\ Len(summed_periods) = 1
  /\ Len(transaction.transfers) = 2

(***************************************************************************)
(* C2: a leg that names an account outside the declared set ends the run   *)
(* in the UndeclaredAccount failure unless an earlier check failed first,  *)
(* whatever its amount and whether or not its transaction balances, and    *)
(* nothing is returned.                                                    *)
(***************************************************************************)
C2_UndeclaredNeverReturns ==
  /\ \A place \in Completed :
       \A l \in 1..Len(TransactionAt(place).transfers) :
         TransactionAt(place).transfers[l][1] \in data.accounts
  /\ Running => \A l \in 1..i : transaction.transfers[l][1] \in data.accounts
  /\ panic = "UndeclaredAccount" =>
       /\ pc = "panic" /\ returned = <<>>
       /\ transaction.transfers[i + 1][1] \notin data.accounts
  /\ (pc = "panic" /\ panic # "UndeclaredAccount" /\ i < Len(transaction.transfers)) =>
       transaction.transfers[i + 1][1] \in data.accounts

\* The undeclared leg has amount zero and its transaction balances.
C2_Witness ==
  /\ pc = "panic"
  /\ panic = "UndeclaredAccount"
  /\ transaction.transfers[i + 1][2] = 0
  /\ LegSum(transaction.transfers) = 0
  /\ i = 1

(***************************************************************************)
(* C3: additivity.  In the returned value the global total of every        *)
(* account is the sum of its totals in the periods, a period without       *)
(* activity on the account counting zero.                                  *)
(***************************************************************************)
C3_Additivity ==
  returned # <<>> =>
    \A account \in AccountNames :
      TotalIn(returned[1].total, account)
        = SumOverPeriods(returned[1].groupings, account)

\* Two periods that each add 1 to account a.
C3_Witness ==
  /\ returned # <<>>
  /\ Len(returned[1].groupings) = 2
  /\ TotalIn(returned[1].groupings[1][2], <<"a">>) = 1
  /\ TotalIn(returned[1].groupings[2][2], <<"a">>) = 1
  /\ TotalIn(returned[1].total, <<"a">>) = 2

(***************************************************************************)
(* C4: the returned list of periods has one entry per period of the        *)
(* ledger, named as the ledger names them and in the ledger's order.       *)
(***************************************************************************)
C4_PeriodOrder ==
  /\ \A g \in Summed : summed_periods[g][1] = data.groupings[g].name
  /\ Len(summed_periods) =
       IF pc \in {"groupings", "done"} THEN Len(data.groupings)
       ELSE Len(data.groupings) - 1
  /\ returned # <<>> =>
       /\ Len(returned[1].groupings) = Len(data.groupings)
       /\ \A g \in 1..Len(data.groupings) :
            returned[1].groupings[g][1] = data.groupings[g].name

\* Two periods with different names, the greater name first.
C4_Witness ==
  /\ returned # <<>>
  /\ Len(data.groupings) = 2
  /\ StringLess(data.groupings[2].name, data.groupings[1].name)

(***************************************************************************)
(* C5: in every SummedGrouping produced, each entry of both rollups has as *)
(* total the sum of the totals of its listed SummedAccounts, and a         *)
(* declared member is listed exactly when a leg was applied to it in the   *)
(* scope; a member without activity is not listed, not even with zero.     *)
(***************************************************************************)
EntryIsSumOfListed(entries) ==
  \A e \in 1..Len(entries) : entries[e][2] = SumOfSums(entries[e][3])

ListedIffActive(table, entries, Active(_)) ==
  \A e \in 1..Len(table) :
    \A k \in 1..Len(table[e][2]) :
      (\E n \in 1..Len(entries[e][3]) : entries[e][3][n].name = table[e][2][k])
        <=> Active(table[e][2][k])

RollupsOf(summed, Active(_)) ==
  /\ EntryIsSumOfListed(summed.account_types)
  /\ EntryIsSumOfListed(summed.account_sums)
  /\ ListedIffActive(data.account_types, summed.account_types, Active)
  /\ ListedIffActive(data.account_sums, summed.account_sums, Active)

C5_CategoryTotalsAndMembers ==
  /\ \A g \in Summed :
       LET Active(account) == ActiveIn(g, account)
       IN  RollupsOf(summed_periods[g][2], Active)
  /\ returned # <<>> =>
       LET Active(account) ==
             \E g \in 1..Len(data.groupings) : ActiveIn(g, account)
       IN  RollupsOf(returned[1].total, Active)

\* Category x declares b and a; in the first period only a has activity,
\* with legs that net to zero, and the period lists a alone, with total 0.
C5_Witness ==
  /\ returned # <<>>
  /\ Len(data.account_sums) = 2
  /\ Len(data.groupings) = 2
  /\ Len(returned[1].groupings[1][2].account_sums[1][3]) = 1
  /\ returned[1].groupings[1][2].account_sums[1][3][1].name = <<"a">>
  /\ returned[1].groupings[1][2].account_sums[1][3][1].sum = 0
  /\ Len(returned[1].total.account_sums[1][3]) = 2

(***************************************************************************)
(* The legs applied so far and the Transfers they were given               *)
(***************************************************************************)
\* <<g, t, l>>: leg l (zero-based) of transaction t of grouping g.
LegPlaces ==
  UNION { {<<place[1], place[2], l>> :
             l \in 0..(Len(TransactionAt(place).transfers) - 1)}
          : place \in Places }

\* The legs that went into both accumulators.
AppliedLegs ==
  {place \in LegPlaces :
     (Running /\ <<place[1], place[2]>> = Current) => place[3] < i}

TransferAt(place) ==
  MakeTransfer(data.groupings[place[1]].name,
               TransactionAt(<<place[1], place[2]>>), place[3])

AccountAt(place) ==
  TransactionAt(<<place[1], place[2]>>).transfers[place[3] + 1][1]

Holds(accounts, account, transfer) ==
  /\ account \in DOMAIN accounts
  /\ \E k \in 1..Len(accounts[account].transfers) :
       accounts[account].transfers[k] = transfer

\* Every transfer set there is: of both accumulators and of every
\* SummedAccount listed in a pushed or returned SummedGrouping.
ListedIn(entries) ==
  UNION { {entries[e][3][k].transfers : k \in 1..Len(entries[e][3])}
          : e \in 1..Len(entries) }

ListedInGrouping(summed) ==
  ListedIn(summed.account_types) \cup ListedIn(summed.account_sums)

TransferSets ==
  {total_accounts[a].transfers : a \in DOMAIN total_accounts}
    \cup {grouping_accounts[a].transfers : a \in DOMAIN grouping_accounts}
    \cup UNION {ListedInGrouping(summed_periods[g][2]) : g \in Summed}
    \cup (IF returned = <<>> THEN {} ELSE ListedInGrouping(returned[1].total))

DistinctGroupingNames ==
  \A g, h \in 1..Len(data.groupings) :
    g # h => data.groupings[g].name # data.groupings[h].name

Key(x) == <<x.date, x.name, x.amount, x.unique_id>>

KeyLess(x, y) ==
  \/ x.date < y.date
  \/ x.date = y.date /\ StringLess(x.name, y.name)
  \/ x.date = y.date /\ x.name = y.name /\ x.amount < y.amount
  \/ /\ x.date = y.date /\ x.name = y.name /\ x.amount = y.amount
     /\ StringLess(x.unique_id, y.unique_id)

(***************************************************************************)
(* C6: in every scope the transfers of every SummedAccount iterate in      *)
(* ascending order of (date, name, amount, unique id), whatever the order  *)
(* the legs were read in: never descending, and strictly ascending when    *)
(* the period names are distinct.                                          *)
(***************************************************************************)
C6_TransfersAscending ==
  \A transfers \in TransferSets :
    \A k, l \in 1..Len(transfers) :
      k < l =>
        /\ ~KeyLess(transfers[l], transfers[k])
        /\ DistinctGroupingNames => KeyLess(transfers[k], transfers[l])

\* Account a holds, first, a transfer of the second period and, second, a
\* transfer of the first period.
C6_Witness ==
  /\ pc = "done"
  /\ Len(data.groupings) = 2
  /\ DistinctGroupingNames
  /\ <<1, 1, 0>> \in LegPlaces
  /\ <<2, 1, 0>> \in LegPlaces
  /\ <<"a">> \in DOMAIN total_accounts
  /\ Len(total_accounts[<<"a">>].transfers) = 2
  /\ total_accounts[<<"a">>].transfers[1] = TransferAt(<<2, 1, 0>>)
  /\ total_accounts[<<"a">>].transfers[2] = TransferAt(<<1, 1, 0>>)

(***************************************************************************)
(* C7 as stated: no SummedAccount ever holds two Transfers with the same   *)
(* (date, name, amount, unique id), also when the two come from            *)
(* transactions with different sibling legs.                               *)
(***************************************************************************)
C7_Original_NoTwoWithSameKey ==
  \A transfers \in TransferSets :
    \A k, l \in 1..Len(transfers) :
      k # l => Key(transfers[k]) # Key(transfers[l])

(***************************************************************************)
(* C7 as amended: applying a leg whose Transfer equals, in all five fields *)
(* (date, name, amount, unique id and related_transfers), a Transfer the   *)
(* account holds in that scope fails with DuplicateTransfer, so no two     *)
(* applied legs gave equal Transfers and no SummedAccount holds two equal  *)
(* Transfers; DuplicateTransfer is raised for no other reason.             *)
(***************************************************************************)
C7_EqualTransferRejected ==
  /\ Cardinality({TransferAt(p) : p \in AppliedLegs}) = Cardinality(AppliedLegs)
  /\ \A transfers \in TransferSets :
       \A k, l \in 1..Len(transfers) : k # l => transfers[k] # transfers[l]
  /\ panic = "DuplicateTransfer" =>
       /\ pc = "panic" /\ returned = <<>>
       /\ \E p \in AppliedLegs :
            /\ TransferAt(p) = MakeTransfer(grouping.name, transaction, i)
            /\ AccountAt(p) = transaction.transfers[i + 1][1]

\* A run ended by DuplicateTransfer.
C7_Witness ==
  /\ pc = "panic"
  /\ panic = "DuplicateTransfer"
  /\ Len(data.groupings) = 2

(***************************************************************************)
(* C8: the unique id is distinct for distinct (period name, transaction    *)
(* index, leg index), so a ledger with pairwise distinct period names and  *)
(* indices unique within each period never fails with DuplicateTransfer,   *)
(* even with identical transactions or one account in two equal legs.      *)
(***************************************************************************)
IdTriple(place) ==
  <<data.groupings[place[1]].name,
    TransactionAt(<<place[1], place[2]>>).index, place[3]>>

UniqueIndices ==
  \A p, q \in Places :
    (p[1] = q[1] /\ p[2] # q[2]) => TransactionAt(p).index # TransactionAt(q).index

C8_UniqueIdsNoDuplicate ==
  /\ LET triples == {IdTriple(p) : p \in LegPlaces}
     IN  Cardinality({UniqueId(x[1], x[2], x[3]) : x \in triples})
           = Cardinality(triples)
  /\ (DistinctGroupingNames /\ UniqueIndices) => panic # "DuplicateTransfer"

\* One period holds the same transaction twice, each naming account a in
\* two legs of equal amount, and the run returns.
C8_Witness ==
  /\ pc = "done"
  /\ Len(data.groupings) = 1
  /\ Len(data.groupings[1].transactions) = 2
  /\ data.groupings[1].transactions[1].name = data.groupings[1].transactions[2].name
  /\ data.groupings[1].transactions[1].date = data.groupings[1].transactions[2].date
  /\ data.groupings[1].transactions[1].transfers = << <<<<"a">>, 0>>, <<<<"a">>, 0>> >>
  /\ data.groupings[1].transactions[2].transfers = << <<<<"a">>, 0>>, <<<<"a">>, 0>> >>
  /\ Len(total_accounts[<<"a">>].transfers) = 4

(***************************************************************************)
(* C9: every SummedGrouping produced has one entry per declared account    *)
(* type group and one per declared category, in declaration order, the     *)
(* listed accounts of an entry follow the declared member order, and a     *)
(* category without activity appears with total zero and no account.       *)
(***************************************************************************)
MemberNames(entry) == [n \in 1..Len(entry[3]) |-> entry[3][n].name]

EntriesFollowTable(table, entries) ==
  /\ Len(entries) = Len(table)
  /\ \A e \in 1..Len(table) :
       LET Listed(account) ==
             \E n \in 1..Len(entries[e][3]) : entries[e][3][n].name = account
       IN  /\ entries[e][1] = table[e][1]
           /\ MemberNames(entries[e]) = SelectSeq(table[e][2], Listed)
           /\ entries[e][3] = <<>> => entries[e][2] = 0

ShapeOf(summed, Active(_)) ==
  /\ EntriesFollowTable(data.account_types, summed.account_types)
  /\ EntriesFollowTable(data.account_sums, summed.account_sums)
  /\ \A e \in 1..Len(data.account_sums) :
       (\A k \in 1..Len(data.account_sums[e][2]) : ~Active(data.account_sums[e][2][k]))
         => summed.account_sums[e] = <<data.account_sums[e][1], 0, <<>> >>
  /\ \A e \in 1..Len(data.account_types) :
       (\A k \in 1..Len(data.account_types[e][2]) : ~Active(data.account_types[e][2][k]))
         => summed.account_types[e] = <<data.account_types[e][1], 0, <<>> >>

C9_RollupShape ==
  /\ \A g \in Summed :
       LET Active(account) == ActiveIn(g, account)
       IN  ShapeOf(summed_periods[g][2], Active)
  /\ returned # <<>> =>
       LET Active(account) ==
             \E g \in 1..Len(data.groupings) : ActiveIn(g, account)
       IN  ShapeOf(returned[1].total, Active)

\* Category x lists b before a, as declared, in the first period; the
\* second period has no activity and both categories appear empty.
C9_Witness ==
  /\ returned # <<>>
  /\ Len(data.account_sums) = 2
  /\ Len(data.groupings) = 2
  /\ MemberNames(returned[1].groupings[1][2].account_sums[1]) = << <<"b">>, <<"a">> >>
  /\ returned[1].groupings[2][2].account_sums
       = << <<<<"x">>, 0, <<>> >>, <<<<"y">>, 0, <<>> >> >>

(***************************************************************************)
(* C10 as stated: when a transaction fails the declared-account check or   *)
(* the sum check, both accumulators are as they were before it began:      *)
(* none of its legs is in any account's transfer set.                      *)
(***************************************************************************)
CurrentTransfers ==
  {MakeTransfer(grouping.name, transaction, l) :
     l \in 0..(Len(transaction.transfers) - 1)}

FailedValidation ==
  pc = "panic" /\ panic \in {"UndeclaredAccount", "UnbalancedTransaction"}

C10_Original_AccumulatorsUntouched ==
  FailedValidation =>
    /\ \A a \in DOMAIN grouping_accounts :
         \A k \in 1..Len(grouping_accounts[a].transfers) :
           grouping_accounts[a].transfers[k] \notin CurrentTransfers
    /\ \A a \in DOMAIN total_accounts :
         \A k \in 1..Len(total_accounts[a].transfers) :
           total_accounts[a].transfers[k] \notin CurrentTransfers

(***************************************************************************)
(* C10 as amended: when a transaction fails the declared-account check or  *)
(* the sum check, nothing is returned and no entry is pushed for its       *)
(* period, but both accumulators already hold the legs of the transaction  *)
(* that precede the failed check (all of its legs when the sum check       *)
(* fails) and none of the legs from the failed check on.                   *)
(***************************************************************************)
C10_FailedValidationLeavesAppliedLegs ==
  FailedValidation =>
    /\ returned = <<>>
    /\ Len(summed_periods) = Len(data.groupings) - 1
    /\ panic = "UnbalancedTransaction" => i = Len(transaction.transfers)
    /\ \A l \in 0..(Len(transaction.transfers) - 1) :
         LET account  == transaction.transfers[l + 1][1]
             transfer == MakeTransfer(grouping.name, transaction, l)
         IN  /\ Holds(grouping_accounts, account, transfer) <=> l < i
             /\ Holds(total_accounts, account, transfer) <=> l < i

\* The sum check fails after both legs of the transaction were applied.
C10_Witness ==
  /\ pc = "panic"
  /\ panic = "UnbalancedTransaction"
  /\ i = 2
  /\ Holds(grouping_accounts, <<"a">>, MakeTransfer(grouping.name, transaction, 0))
  /\ Holds(total_accounts, <<"b">>, MakeTransfer(grouping.name, transaction, 1))

(***************************************************************************)
(* C11: the rollup is the same function in both scopes and each period     *)
(* starts from an empty accumulator: the SummedGrouping returned for a     *)
(* period is the global SummedGrouping calculate returns for the ledger    *)
(* with the same declarations and that period alone, so every Transfer a   *)
(* period lists comes from a leg of that period.                           *)
(***************************************************************************)
OnlyPeriod(g) == [data EXCEPT !.groupings = <<data.groupings[g]>>]

TransfersListed(summed) == UNION {{t[k] : k \in 1..Len(t)} : t \in ListedInGrouping(summed)}

C11_PeriodIsItsOwnGlobal ==
  returned # <<>> =>
    \A g \in 1..Len(returned[1].groupings) :
      /\ Calculate(OnlyPeriod(g)) # <<>>
      /\ returned[1].groupings[g][2] = Calculate(OnlyPeriod(g))[1].total
      /\ TransfersListed(returned[1].groupings[g][2])
           \subseteq {TransferAt(p) : p \in {q \in LegPlaces : q[1] = g}}

\* Two periods with activity on account a: +1 in the first, -1 in the second.
C11_Witness ==
  /\ returned # <<>>
  /\ Len(returned[1].groupings) = 2
  /\ TotalIn(returned[1].groupings[1][2], <<"a">>) = 1
  /\ TotalIn(returned[1].groupings[2][2], <<"a">>) = -1
  /\ ListedUnderTypes(returned[1].total, <<"a">>) # {}
  /\ TotalIn(returned[1].total, <<"a">>) = 0

(***************************************************************************)
(* C12: when the period names are distinct, in the returned value the      *)
(* global total of every account is the sum of its period totals, its      *)
(* global transfer set is the union of its period transfer sets, no        *)
(* Transfer being in two of them, and calculate returns the same global    *)
(* SummedGrouping (totals, member lists, order of the transfers) for the   *)
(* ledger with its periods in any other order.                             *)
(***************************************************************************)
\* The transfers a SummedGrouping lists for an account, as a set.
TransfersOf(summed, account) ==
  UNION {{m.transfers[k] : k \in 1..Len(m.transfers)}
         : m \in ListedUnderTypes(summed, account)}

RECURSIVE CountOverPeriods(_, _)
CountOverPeriods(periods, account) ==
  IF periods = <<>> THEN 0
  ELSE Cardinality(TransfersOf(periods[1][2], account))
         + CountOverPeriods(Tail(periods), account)

PeriodOrders(n) ==
  {perm \in [1..n -> 1..n] : \A k, l \in 1..n : k # l => perm[k] # perm[l]}

Permuted(perm) ==
  [data EXCEPT !.groupings = [k \in 1..Len(perm) |-> data.groupings[perm[k]]]]

C12_GlobalIsOrderFreeSumOfPeriods ==
  (returned # <<>> /\ DistinctGroupingNames) =>
    /\ \A account \in AccountNames :
         /\ TotalIn(returned[1].total, account)
              = SumOverPeriods(returned[1].groupings, account)
         /\ TransfersOf(returned[1].total, account)
              = UNION {TransfersOf(returned[1].groupings[g][2], account)
                       : g \in 1..Len(returned[1].groupings)}
         /\ Cardinality(TransfersOf(returned[1].total, account))
              = CountOverPeriods(returned[1].groupings, account)
    /\ \A perm \in PeriodOrders(Len(data.groupings)) :
         /\ Calculate(Permuted(perm)) # <<>>
         /\ Calculate(Permuted(perm))[1].total = returned[1].total

\* Two periods of different names, each with a transfer of account a, the
\* one of the second period sorting before the one of the first.
C12_Witness ==
  /\ returned # <<>>
  /\ DistinctGroupingNames
  /\ Len(returned[1].groupings) = 2
  /\ Cardinality(TransfersOf(returned[1].groupings[1][2], <<"a">>)) = 1
  /\ Cardinality(TransfersOf(returned[1].groupings[2][2], <<"a">>)) = 1
  /\ Cardinality(TransfersOf(returned[1].total, <<"a">>)) = 2
  /\ \E m \in ListedUnderTypes(returned[1].total, <<"a">>) :
       /\ Len(m.transfers) = 2
       /\ m.transfers[1] \in TransfersOf(returned[1].groupings[2][2], <<"a">>)
       /\ m.sum # 0

(***************************************************************************)
(* C13, as claimed: every Transfer of the returned value holds in          *)
(* related_transfers the other legs of its transaction, its own leg left   *)
(* out, and their amounts sum to minus the Transfer's own amount.          *)
(* calculate stores a clone of the whole leg list, own leg included, so    *)
(* this fails for every returned Transfer.                                 *)
(***************************************************************************)
\* The legs of a transaction without leg l (zero-based).
OtherLegs(transfers, l) ==
  SubSeq(transfers, 1, l) \o SubSeq(transfers, l + 2, Len(transfers))

\* The Transfers the returned value lists, in any scope.
ReturnedTransfers ==
  IF returned = <<>> THEN {}
  ELSE TransfersListed(returned[1].total)
         \cup UNION {TransfersListed(returned[1].groupings[g][2])
                     : g \in 1..Len(returned[1].groupings)}

C13_Claimed_RelatedAreTheOthers ==
  \A x \in ReturnedTransfers :
    /\ \E place \in LegPlaces :
         /\ TransferAt(place) = x
         /\ x.related_transfers
              = OtherLegs(TransactionAt(<<place[1], place[2]>>).transfers, place[3])
    /\ LegSum(x.related_transfers) = 0 - x.amount

\* A returned Transfer of amount 1 on account a whose related_transfers
\* are its own leg and the leg of b, summing to zero.
C13_Witness ==
  \E x \in ReturnedTransfers :
    /\ x.amount = 1
    /\ x.related_transfers = << <<(<<"a">>), 1>>, <<(<<"b">>), -1>> >>
    /\ LegSum(x.related_transfers) = 0

(***************************************************************************)
(* C14: after every leg application that went through, in the accumulator  *)
(* of the period being read and in the global one, the sum of every        *)
(* SummedAccount is the sum of the amounts of the Transfers it holds, and  *)
(* it holds as many Transfers as legs were applied to the account in that  *)
(* scope; an account has an entry exactly when a leg was applied to it.    *)
(* The application that ends the run with DuplicateTransfer is the one     *)
(* that did not go through: there the global sum of the account already    *)
(* includes the rejected amount, and nothing else differs.                 *)
(***************************************************************************)
RECURSIVE AmountSum(_)
AmountSum(transfers) ==
  IF transfers = <<>> THEN 0 ELSE transfers[1].amount + AmountSum(Tail(transfers))

\* The applied legs of the grouping whose accumulator grouping_accounts is.
LocalLegs == {place \in AppliedLegs : place[1] = Len(data.groupings)}

Rejected == pc = "panic" /\ panic = "DuplicateTransfer"

\* What the sum of an account is ahead of its transfers by.
Excess(account) ==
  IF Rejected /\ transaction.transfers[i + 1][1] = account
  THEN transaction.transfers[i + 1][2]
  ELSE 0

CountsMatch(accounts, legs) ==
  /\ DOMAIN accounts = {AccountAt(place) : place \in legs}
  /\ \A a \in DOMAIN accounts :
       /\ accounts[a].name = a
       /\ Len(accounts[a].transfers)
            = Cardinality({place \in legs : AccountAt(place) = a})

C14_SumAndCountFollowAppliedLegs ==
  /\ CountsMatch(total_accounts, AppliedLegs)
  /\ CountsMatch(grouping_accounts, LocalLegs)
  /\ \A a \in DOMAIN total_accounts :
       total_accounts[a].sum = AmountSum(total_accounts[a].transfers) + Excess(a)
  /\ \A a \in DOMAIN grouping_accounts :
       grouping_accounts[a].sum = AmountSum(grouping_accounts[a].transfers)

\* In the second period account a was created in the local accumulator and
\* updated in the global one, and then updated in both.
C14_Witness ==
  /\ pc = "transfers"
  /\ Len(data.groupings) = 2
  /\ <<"a">> \in DOMAIN grouping_accounts
  /\ Len(grouping_accounts[<<"a">>].transfers) = 2
  /\ Len(total_accounts[<<"a">>].transfers) = 3
  /\ grouping_accounts[<<"a">>].sum = 2
  /\ total_accounts[<<"a">>].sum = 3

\* The rejected application: the global sum is ahead of the transfers held.
C14_RejectedWitness ==
  /\ Rejected
  /\ Excess(transaction.transfers[i + 1][1]) = 1

(***************************************************************************)
(* C15: when every declared account is listed under exactly one account    *)
(* type, in every SummedGrouping pushed or returned the totals of the      *)
(* account types sum to zero and every account with a leg in the scope is  *)
(* listed exactly once, under one account type; and whenever no            *)
(* transaction is half applied, the sums of the accounts of each           *)
(* accumulator sum to zero.                                                *)
(***************************************************************************)
\* How often the account is listed in the declared account types.
Listings(account_types, account) ==
  Cardinality({place \in UNION {{<<e, k>> : k \in 1..Len(account_types[e][2])}
                                : e \in 1..Len(account_types)} :
                 account_types[place[1]][2][place[2]] = account})

EachAccountUnderOneType ==
  \A account \in data.accounts : Listings(data.account_types, account) = 1

RECURSIVE SumOfTotals(_)
SumOfTotals(entries) ==
  IF entries = <<>> THEN 0 ELSE entries[1][2] + SumOfTotals(Tail(entries))

\* How often the account is among the members of the entries.
Memberships(entries, account) ==
  Cardinality({place \in UNION {{<<e, k>> : k \in 1..Len(entries[e][3])}
                                : e \in 1..Len(entries)} :
                 entries[place[1]][3][place[2]].name = account})

RECURSIVE SumOfAccounts(_)
SumOfAccounts(accounts) ==
  IF DOMAIN accounts = {} THEN 0
  ELSE LET a == CHOOSE a \in DOMAIN accounts : TRUE
       IN  accounts[a].sum
             + SumOfAccounts([b \in DOMAIN accounts \ {a} |-> accounts[b]])

C15_TypeTotalsSumToZero ==
  EachAccountUnderOneType =>
    /\ \A g \in Summed :
         /\ SumOfTotals(summed_periods[g][2].account_types) = 0
         /\ \A account \in AccountNames :
              Memberships(summed_periods[g][2].account_types, account)
                = IF ActiveIn(g, account) THEN 1 ELSE 0
    /\ returned # <<>> =>
         /\ SumOfTotals(returned[1].total.account_types) = 0
         /\ \A account \in AccountNames :
              Memberships(returned[1].total.account_types, account)
                = IF \E g \in 1..Len(data.groupings) : ActiveIn(g, account)
                  THEN 1 ELSE 0
    /\ ~Running =>
         /\ SumOfAccounts(total_accounts) = 0
         /\ SumOfAccounts(grouping_accounts) = 0

\* Returned: Asset totals 1 and Income totals -1, account a under Asset and
\* account b under Income, in the only period and in the global scope.
C15_Witness ==
  /\ returned # <<>>
  /\ EachAccountUnderOneType
  /\ Len(returned[1].groupings) = 1
  /\ Len(returned[1].total.account_types) = 2
  /\ returned[1].total.account_types[1][2] = 1
  /\ returned[1].total.account_types[2][2] = -1
  /\ MemberNames(returned[1].total.account_types[1]) = << <<"a">> >>
  /\ MemberNames(returned[1].total.account_types[2]) = << <<"b">> >>
  /\ returned[1].groupings[1][2].account_types[1][2] = 1
  /\ returned[1].groupings[1][2].account_types[2][2] = -1

====
